---- MODULE Spec2Model ----
(***************************************************************************)
(* Host agent of alderaan/vps: the HTTP boundary (main.py), the search     *)
(* service and the file retrieval service (search.py) and the backup       *)
(* runner (backup.py), as one request-processing state machine.            *)
(*                                                                         *)
(* A path is a sequence of components; a path string is the sequence of    *)
(* its characters, so that str.startswith is a prefix test on characters   *)
(* and not on components.                                                  *)
(***************************************************************************)
EXTENDS Integers, Sequences, FiniteSets, TLC

\* ------------------------------------------------------------------ bounds
MaxFiles == 3
MaxLines == 4
MaxDefectLines == 3
MaxCap == 2
MaxContext == 1

\* --------------------------------------------------------------- strings
\* The characters of every file and directory name of the modelled disk.
Chars(name) ==
  CASE name = "home" -> <<"h","o","m","e">>
    [] name = "david" -> <<"d","a","v","i","d">>
    [] name = "vps" -> <<"v","p","s">>
    [] name = "n8n-docs" -> <<"n","8","n","-","d","o","c","s">>
    [] name = "n8n-nodes-only" -> <<"n","8","n","-","n","o","d","e","s","-","o","n","l","y">>
    [] name = "n8n-docs-old" -> <<"n","8","n","-","d","o","c","s","-","o","l","d">>
    [] name = "n8nio" -> <<"n","8","n","i","o">>
    [] name = "etc" -> <<"e","t","c">>
    [] name = "passwd" -> <<"p","a","s","s","w","d">>
    [] name = "a.md" -> <<"a",".","m","d">>
    [] name = "missing.md" -> <<"m","i","s","s","i","n","g",".","m","d">>
    [] name = "secret.md" -> <<"s","e","c","r","e","t",".","m","d">>
    [] name = "sub" -> <<"s","u","b">>
    [] name = "bin.dat" -> <<"b","i","n",".","d","a","t">>
    [] name = "gone.dat" -> <<"g","o","n","e",".","d","a","t">>
    [] name = "locked.md" -> <<"l","o","c","k","e","d",".","m","d">>
    [] name = "link" -> <<"l","i","n","k">>
    [] name = "loop" -> <<"l","o","o","p">>
    [] OTHER -> <<"?">>

RECURSIVE Str(_)
\* str(Path): "/" before every component, "/" alone for the root.
Str(p) ==
  IF p = <<>> THEN <<"/">>
  ELSE IF Len(p) = 1 THEN <<"/">> \o Chars(p[1])
  ELSE Str(SubSeq(p, 1, Len(p) - 1)) \o <<"/">> \o Chars(p[Len(p)])

\* str.startswith
StartsWith(s, t) == Len(s) >= Len(t) /\ SubSeq(s, 1, Len(t)) = t

\* ------------------------------------------------------------ filesystem
\* default of the base_path parameter
base_path == <<"home", "david", "vps">>

\* a list that also admits the name the MCP tools send
AllowListWithN8nio == {"n8n-docs", "n8n-nodes-only", "n8nio"}
AllowList == {"n8n-docs", "n8n-nodes-only"}
\* the names a caller sends: the allow-list and a name outside it
Directories == AllowList \cup {"n8nio"}
\* the directory names the MCP tools n8n_search_docs, n8n_search_nodes and
\* n8n_get_files send to the host agent
ForwardedDirectories == {"n8n-docs", "n8nio"}

\* The disks a request can meet: the optional parts of the tree.
Worlds ==
  { [nodesOnly |-> TRUE, sibling |-> TRUE, passwd |-> TRUE],
    [nodesOnly |-> FALSE, sibling |-> FALSE, passwd |-> FALSE] }

Docs == base_path \o <<"n8n-docs">>
Sibling == base_path \o <<"n8n-docs-old">>
ResolveError == <<"<RuntimeError>">>

\* What lies at an absolute path without "." and ".." components. A "locked"
\* file is one on which read_text or stat raises OSError, a "binfile" holds
\* bytes that are not UTF-8, a "gonefile" is such a file whose second read
\* (read_bytes or stat of the fallback) raises.
Kind(fs, p) ==
  CASE p \in {<<>>, <<"home">>, <<"home","david">>, base_path, Docs} -> "dir"
    [] p = Docs \o <<"sub">> -> "dir"
    [] p = Docs \o <<"a.md">> -> "file"
    [] p = Docs \o <<"bin.dat">> -> "binfile"
    [] p = Docs \o <<"gone.dat">> -> "gonefile"
    [] p = Docs \o <<"locked.md">> -> "locked"
    [] p = Docs \o <<"link">> -> "symlink"
    [] p = Docs \o <<"loop">> -> "loop"
    [] p = base_path \o <<"n8n-nodes-only">> -> IF fs.nodesOnly THEN "dir" ELSE "none"
    [] p = Sibling -> IF fs.sibling THEN "dir" ELSE "none"
    [] p = Sibling \o <<"secret.md">> -> IF fs.sibling THEN "file" ELSE "none"
    [] p = <<"etc">> -> "dir"
    [] p = <<"etc", "passwd">> -> IF fs.passwd THEN "file" ELSE "none"
    [] OTHER -> "none"

LinkTarget(p) == <<"etc", "passwd">>

\* The bytes of a file; "xFF" is a byte that is not valid UTF-8.
Bytes(p) ==
  CASE p = Docs \o <<"a.md">> -> <<"h", "i">>
    [] p = Docs \o <<"bin.dat">> -> <<"h", "xFF", "i">>
    [] p = Docs \o <<"gone.dat">> -> <<"xFF">>
    [] p = Docs \o <<"locked.md">> -> <<"k">>
    [] p = Sibling \o <<"secret.md">> -> <<"s", "3">>
    [] p = <<"etc", "passwd">> -> <<"r", "o", "o", "t">>
    [] OTHER -> <<>>

Parent(p) == IF p = <<>> THEN <<>> ELSE SubSeq(p, 1, Len(p) - 1)

\* Path.__truediv__: an absolute right operand replaces the left one.
\* A requested path is the list of its "/"-separated parts, so a leading
\* empty part marks an absolute path.
Join(base, rel) ==
  IF Len(rel) > 1 /\ rel[1] = "" THEN Tail(rel) ELSE base \o rel

RECURSIVE ResolveFrom(_, _, _)
\* Path.resolve(): "." and empty parts are dropped, ".." goes to the parent
\* of the path resolved so far, a symlink is replaced by its target, a
\* symlink loop raises.
ResolveFrom(fs, cur, rest) ==
  IF rest = <<>> THEN cur
  ELSE LET name == Head(rest) IN
    IF name \in {"", "."} THEN ResolveFrom(fs, cur, Tail(rest))
    ELSE IF name = ".." THEN ResolveFrom(fs, Parent(cur), Tail(rest))
    ELSE LET np == Append(cur, name) IN
      IF Kind(fs, np) = "loop" THEN ResolveError
      ELSE IF Kind(fs, np) = "symlink"
        THEN ResolveFrom(fs, LinkTarget(np), Tail(rest))
      ELSE ResolveFrom(fs, np, Tail(rest))

Resolve(fs, p) == ResolveFrom(fs, <<>>, p)

Exists(fs, p) == Kind(fs, p) # "none"
IsFile(fs, p) == Kind(fs, p) \in {"file", "binfile", "gonefile", "locked"}

\* bytes.decode('utf-8'): strict decoding fails on an invalid byte
ValidUtf8(bytes) == \A i \in 1..Len(bytes) : bytes[i] # "xFF"
\* bytes.decode('utf-8', errors='replace')
DecodeReplace(bytes) ==
  [i \in 1..Len(bytes) |-> IF bytes[i] = "xFF" THEN "uFFFD" ELSE bytes[i]]

\* ------------------------------------------------- get_files, one path
ErrorRecord(file_path, msg) == [file |-> file_path, error |-> msg]

\* FileContent(path=, content=, size=)
FileContent(file_path, content, size) ==
  [path |-> file_path, content |-> content, size |-> size]

\* the security check of get_files
WithinAllowed(full_file_path, resolved_base) ==
  StartsWith(Str(full_file_path), Str(resolved_base))

\* a read whose fallback failure is swallowed instead of recorded
ReadFileSwallow(fs, file_path, full_file_path) ==
  LET kind == Kind(fs, full_file_path)
      bytes == Bytes(full_file_path)
  IN  IF kind = "locked"
        THEN [tag |-> "error", rec |-> ErrorRecord(file_path, "Unexpected error")]
      ELSE IF ValidUtf8(bytes)
        THEN [tag |-> "file", rec |-> FileContent(file_path, bytes, Len(bytes))]
      ELSE IF kind = "gonefile"
        THEN [tag |-> "skipped", rec |-> ErrorRecord(file_path, "")]
      ELSE [tag |-> "file",
            rec |-> FileContent(file_path, DecodeReplace(bytes), Len(bytes))]

\* a read without the fallback: a UnicodeDecodeError is recorded as an error
ReadFileNoFallback(fs, file_path, full_file_path) ==
  LET kind == Kind(fs, full_file_path)
      bytes == Bytes(full_file_path)
  IN  IF kind = "locked"
        THEN [tag |-> "error", rec |-> ErrorRecord(file_path, "Unexpected error")]
      ELSE IF ValidUtf8(bytes)
        THEN [tag |-> "file", rec |-> FileContent(file_path, bytes, Len(bytes))]
      ELSE [tag |-> "error", rec |-> ErrorRecord(file_path, "Failed to read file")]

\* the read of one regular file: read_text raises on a file that cannot be
\* opened (outer except), succeeds on valid UTF-8, and otherwise the fallback
\* read_bytes().decode(errors='replace') succeeds or fails in its turn
ReadFile(fs, file_path, full_file_path) ==
  LET kind == Kind(fs, full_file_path)
      bytes == Bytes(full_file_path)
  IN  IF kind = "locked"
        THEN [tag |-> "error", rec |-> ErrorRecord(file_path, "Unexpected error")]
      ELSE IF ValidUtf8(bytes)
        THEN [tag |-> "file", rec |-> FileContent(file_path, bytes, Len(bytes))]
      ELSE IF kind = "gonefile"
        THEN [tag |-> "error", rec |-> ErrorRecord(file_path, "Failed to read file")]
      ELSE [tag |-> "file",
            rec |-> FileContent(file_path, DecodeReplace(bytes), Len(bytes))]

\* a body that tests is_file() before exists()
FileOutcomeIsFileFirst(fs, full_base_path, file_path) ==
  LET full_file_path == Resolve(fs, Join(full_base_path, file_path))
      resolved_base == Resolve(fs, full_base_path)
      err(msg) == [tag |-> "error", rec |-> ErrorRecord(file_path, msg),
                   read |-> {}]
  IN  IF full_file_path = ResolveError THEN err("Unexpected error")
      ELSE IF ~WithinAllowed(full_file_path, resolved_base)
        THEN err("Path traversal attempt detected")
      ELSE IF ~IsFile(fs, full_file_path) THEN err("Path is not a file")
      ELSE IF ~Exists(fs, full_file_path) THEN err("File not found")
      ELSE LET r == ReadFile(fs, file_path, full_file_path)
           IN  [tag |-> r.tag, rec |-> r.rec, read |-> {full_file_path}]

\* The body of the loop of get_files for one requested path: the record it
\* appends, and the canonical paths whose content it reads.
FileOutcome(fs, full_base_path, file_path) ==
  LET full_file_path == Resolve(fs, Join(full_base_path, file_path))
      resolved_base == Resolve(fs, full_base_path)
      err(msg) == [tag |-> "error", rec |-> ErrorRecord(file_path, msg),
                   read |-> {}]
  IN  IF full_file_path = ResolveError THEN err("Unexpected error")
      ELSE IF ~WithinAllowed(full_file_path, resolved_base)
        THEN err("Path traversal attempt detected")
      ELSE IF ~Exists(fs, full_file_path) THEN err("File not found")
      ELSE IF ~IsFile(fs, full_file_path) THEN err("Path is not a file")
      ELSE LET r == ReadFile(fs, file_path, full_file_path)
           IN  [tag |-> r.tag, rec |-> r.rec, read |-> {full_file_path}]

\* ---------------------------------------------------------------- inputs
\* requested paths, as "/"-separated parts
PathPool ==
  { <<"a.md">>, <<"missing.md">>, <<"sub">>, <<".">>, <<"">>, <<"bin.dat">>,
    <<"gone.dat">>, <<"locked.md">>, <<"link">>, <<"loop">>,
    <<"..", "..", "..", "..", "etc", "passwd">>,
    <<"", "etc", "passwd">>,
    <<"..", "n8n-docs-old", "secret.md">> }

RECURSIVE SeqsUpTo(_, _)
SeqsUpTo(S, n) ==
  IF n = 0 THEN {<<>>}
  ELSE LET shorter == SeqsUpTo(S, n - 1)
       IN  shorter \cup {Append(s, x) : s \in shorter, x \in S}

\* ------------------------------------------------------------- constants
\* Field(..., ge=1, le=200), Field(..., ge=0, le=5), max_items=20
MaxResultsLimit == 200
ContextLinesLimit == 5
MaxItems == 20
\* settings.bearer_token as the tests configure it, and the token of test 7
bearer_token == "test-token-123"
Tokens == {bearer_token, "invalid-token"}
Endpoints == {"/search", "/get_files", "/backup/n8n"}

\* ------------------------------------------------------------------ state
VARIABLES
  fs,             \* the disk
  pc,             \* position of the request
  req,            \* the request being served
  status,         \* HTTP status of the reply, 0 while there is none
  outcome,        \* what the operation returned or raised
  response,       \* the response object of the operation
  spawned,        \* subprocesses launched
  fsOps,          \* calls that touch the disk (exists, resolve, is_file, read)
  reads,          \* canonical paths whose content was read
  fi,             \* index of the next requested path of get_files
  file_contents,  \* get_files: file_contents
  errors,         \* get_files: errors
  corpus,         \* the files under the searched directory
  stdout,         \* lines of the output of the search tool
  li,             \* index of the next line to parse
  results,        \* search_directory: results, a dict in insertion order
  total_matches,  \* search_directory: total_matches
  process_returncode, \* process.returncode, NoExit while the subprocess runs
  previous,       \* the response of the execution before a repeated one
  process,        \* search_directory: process, the subprocess it launched
  other,          \* the locals of the request that is not running
  chat,           \* the chat completion request of the ai-dev-server
  upd,            \* the n8n_update_workflow_json call of the ai-dev-server
  wf              \* the run of the multi-agent workflow

vars == <<fs, pc, req, status, outcome, response, spawned, fsOps, reads, fi,
          file_contents, errors, corpus, stdout, li, results, total_matches,
          process_returncode, previous, process, other, chat, upd, wf>>

filesVars == <<fi, file_contents, errors>>
searchVars ==
  <<corpus, stdout, li, results, total_matches, process_returncode, process>>
\* what no operation of the host agent writes
outerVars == <<fs, previous, other, chat, upd, wf>>

\* the files of the searched directory, and the corpus before any search
CorpusFiles == {"a.md", "b.md"}
NoCorpus == [known |-> FALSE, files |-> [f \in CorpusFiles |-> <<>>]]

NoOutcome == [kind |-> "none", msg |-> ""]
NoResponse == [kind |-> "none"]
NoExit == -1
\* no subprocess, and the subprocess that runs the command line cmd
NoProcess == [path |-> <<>>, max_count |-> 0, context |-> 0]
Subprocess(path, max_count, context) ==
  [path |-> path, max_count |-> max_count, context |-> context]
NoRequest ==
  [entry |-> "none", endpoint |-> "none", token |-> "none", directory |-> "none",
   files |-> <<>>, max_results |-> 0, context_lines |-> 0]

\* the locals of a request that has not arrived yet
IdleFrame ==
  [pc |-> "idle", req |-> NoRequest, status |-> 0, outcome |-> NoOutcome,
   response |-> NoResponse, spawned |-> 0, fsOps |-> 0, reads |-> {}, fi |-> 0,
   file_contents |-> <<>>, errors |-> <<>>, stdout |-> <<>>, li |-> 0,
   results |-> <<>>, total_matches |-> 0, process_returncode |-> NoExit,
   process |-> NoProcess]

\* no Authorization header, and the chat endpoint before a request
NoAuth == [present |-> FALSE, token |-> <<>>]
ChatIdle ==
  [pc |-> "idle", auth |-> NoAuth, body_ok |-> TRUE, stream |-> FALSE,
   messages |-> <<>>, buffered |-> FALSE, status |-> 0, ran |-> 0,
   words |-> 0, sent |-> <<>>]

NoArgs ==
  [name |-> FALSE, nodes_json |-> "none", connections_json |-> "none",
   settings_json |-> "none"]
NoBackup == [called |-> FALSE, success |-> FALSE, error |-> "none"]
\* no n8n_update_workflow_json call yet
UpdateIdle ==
  [pc |-> "idle", args |-> NoArgs, backup_before_result |-> NoBackup,
   backup_after_result |-> NoBackup, current |-> "none",
   update_result |-> "none", trace |-> <<>>, outcome |-> "none"]

\* no run of the multi-agent workflow yet
NoDecision == [action |-> "none"]
WorkflowIdle ==
  [pc |-> "idle", user_input |-> <<>>, result |-> NoDecision,
   messages |-> <<>>, current_agent |-> "", final_response |-> <<>>,
   visited |-> <<>>]

Init ==
  /\ fs \in Worlds
  /\ pc = "idle"
  /\ req = NoRequest
  /\ status = 0
  /\ outcome = NoOutcome
  /\ response = NoResponse
  /\ spawned = 0
  /\ fsOps = 0
  /\ reads = {}
  /\ fi = 0
  /\ file_contents = <<>>
  /\ errors = <<>>
  /\ corpus = NoCorpus
  /\ stdout = <<>>
  /\ li = 0
  /\ results = <<>>
  /\ total_matches = 0
  /\ process_returncode = NoExit
  /\ previous = NoResponse
  /\ process = NoProcess
  /\ other = IdleFrame
  /\ chat = ChatIdle
  /\ upd = UpdateIdle
  /\ wf = WorkflowIdle

\* -------------------------------------------------------- HTTP boundary
\* A caller calls search_directory, get_files or backup_n8n_workflows
\* directly (as test_search_local.py does), or posts to an endpoint.
Request ==
  /\ pc = "idle"
  /\ \E entry \in {"http", "direct"}, endpoint \in Endpoints, token \in Tokens,
        directory \in Directories, files \in SeqsUpTo(PathPool, MaxFiles),
        max_results \in 1..MaxCap, context_lines \in 0..MaxContext :
       /\ entry = "direct" => token = bearer_token
       /\ endpoint # "/get_files" => files = <<>>
       /\ endpoint # "/search" => max_results = 1 /\ context_lines = 0
       /\ endpoint = "/backup/n8n" => directory = "n8n-docs"
       /\ req' = [entry |-> entry, endpoint |-> endpoint, token |-> token,
                  directory |-> directory, files |-> files,
                  max_results |-> max_results, context_lines |-> context_lines]
       /\ pc' = IF entry = "http" THEN "auth" ELSE "call"
  /\ UNCHANGED <<outerVars, status, outcome, response, spawned, fsOps, reads,
                 filesVars, searchVars>>

\* a check that lets every token through
TokenValidAlways(credentials) == TRUE
\* verify_token
TokenValid(credentials) == credentials = bearer_token

\* Depends(verify_token): runs before the endpoint function
VerifyToken ==
  /\ pc = "auth"
  /\ IF TokenValid(req.token)
       THEN /\ pc' = "validate"
            /\ UNCHANGED <<status, outcome>>
       ELSE /\ pc' = "done"
            /\ status' = 401
            /\ outcome' = [kind |-> "HTTPException",
                           msg |-> "Invalid authentication token"]
  /\ UNCHANGED <<outerVars, req, response, spawned, fsOps, reads, filesVars, searchVars>>

\* SearchRequest / GetFilesRequest: the body the endpoint accepts
BodyValid(r) ==
  CASE r.endpoint = "/search" ->
         /\ r.directory \in {"n8n-docs", "n8n-nodes-only"}
         /\ r.max_results >= 1 /\ r.max_results <= MaxResultsLimit
         /\ r.context_lines >= 0 /\ r.context_lines <= ContextLinesLimit
    [] r.endpoint = "/get_files" ->
         /\ r.directory \in {"n8n-docs", "n8n-nodes-only"}
         /\ Len(r.files) >= 1 /\ Len(r.files) <= MaxItems
    [] OTHER -> TRUE

ValidateBody ==
  /\ pc = "validate"
  /\ IF BodyValid(req)
       THEN /\ pc' = "call"
            /\ UNCHANGED <<status, outcome>>
       ELSE /\ pc' = "done"
            /\ status' = 422
            /\ outcome' = [kind |-> "RequestValidationError", msg |-> ""]
  /\ UNCHANGED <<outerVars, req, response, spawned, fsOps, reads, filesVars, searchVars>>

\* the except clauses of the endpoint functions
StatusOf(kind) ==
  CASE kind = "response" -> 200
    [] kind = "SearchError" /\ req.endpoint # "/backup/n8n" -> 400
    [] OTHER -> 500

Reply ==
  /\ pc \in {"returned", "raised"}
  /\ req.entry = "http"
  /\ status' = StatusOf(outcome.kind)
  /\ pc' = "done"
  /\ UNCHANGED <<outerVars, req, outcome, response, spawned, fsOps, reads,
                 filesVars, searchVars>>

\* ---------------------------------------------------------------- backup
\* backup_n8n_workflows: the script is looked up, run once, and its exit
\* code decides; a timeout or any other failure is a BackupError.
BackupRun ==
  /\ pc = "call"
  /\ req.endpoint = "/backup/n8n"
  /\ \E exists \in BOOLEAN, returncode \in {0, 1} :
       /\ fsOps' = fsOps + 1
       /\ spawned' = IF exists THEN spawned + 1 ELSE spawned
       /\ IF exists /\ returncode = 0
            THEN /\ outcome' = [kind |-> "response", msg |-> ""]
                 /\ response' = [kind |-> "BackupResponse", status |-> "success"]
                 /\ pc' = "returned"
            ELSE /\ outcome' = [kind |-> "BackupError",
                                msg |-> IF exists THEN "Backup script failed"
                                        ELSE "Backup script not found"]
                 /\ response' = response
                 /\ pc' = "raised"
  /\ UNCHANGED <<outerVars, req, status, reads, filesVars, searchVars>>

\* ------------------------------------------------------------- get_files
full_base_path == base_path \o <<req.directory>>

SearchError(msg) == [kind |-> "SearchError", msg |-> msg]

\* the directory validation and the existence check of get_files
GetFilesStart ==
  /\ pc = "call"
  /\ req.endpoint = "/get_files"
  /\ IF req.directory \notin AllowList
       THEN /\ outcome' = SearchError("Invalid directory")
            /\ pc' = "raised"
            /\ UNCHANGED <<fsOps, filesVars>>
     ELSE IF ~Exists(fs, full_base_path)
       THEN /\ outcome' = SearchError("Directory not found")
            /\ pc' = "raised"
            /\ fsOps' = fsOps + 1
            /\ UNCHANGED filesVars
     ELSE /\ pc' = "files_loop"
          /\ fsOps' = fsOps + 1
          /\ fi' = 1
          /\ file_contents' = <<>>
          /\ errors' = <<>>
          /\ UNCHANGED outcome
  /\ UNCHANGED <<outerVars, req, status, response, spawned, reads, searchVars>>

\* a loop that stops at the first path that fails
GetFilesIterBreak ==
  /\ pc = "files_loop"
  /\ fi <= Len(req.files)
  /\ LET o == FileOutcome(fs, full_base_path, req.files[fi])
     IN  /\ file_contents' = IF o.tag = "file" THEN Append(file_contents, o.rec)
                             ELSE file_contents
         /\ errors' = IF o.tag = "error" THEN Append(errors, o.rec) ELSE errors
         /\ reads' = reads \cup o.read
         /\ fi' = IF o.tag = "error" THEN Len(req.files) + 1 ELSE fi + 1
  /\ fsOps' = fsOps + 1
  /\ UNCHANGED <<outerVars, pc, req, status, outcome, response, spawned, searchVars>>

\* one iteration of `for file_path in files`
GetFilesIter ==
  /\ pc = "files_loop"
  /\ fi <= Len(req.files)
  /\ LET o == FileOutcome(fs, full_base_path, req.files[fi])
     IN  /\ file_contents' = IF o.tag = "file" THEN Append(file_contents, o.rec)
                             ELSE file_contents
         /\ errors' = IF o.tag = "error" THEN Append(errors, o.rec) ELSE errors
         /\ reads' = reads \cup o.read
  /\ fi' = fi + 1
  /\ fsOps' = fsOps + 1
  /\ UNCHANGED <<outerVars, pc, req, status, outcome, response, spawned, searchVars>>

\* return GetFilesResponse(files=file_contents, errors=errors)
GetFilesReturn ==
  /\ pc = "files_loop"
  /\ fi > Len(req.files)
  /\ response' = [kind |-> "GetFilesResponse", files |-> file_contents,
                  errors |-> errors]
  /\ outcome' = [kind |-> "response", msg |-> ""]
  /\ pc' = "returned"
  /\ UNCHANGED <<outerVars, req, status, spawned, fsOps, reads, filesVars, searchVars>>

\* ------------------------------------------------------ the search tool
\* A file is the list of its lines; kind "m" matches the query, "p" does
\* not. The defect of a line is what is wrong with the output line that
\* reports it: "no_lines_text" is a line that is not valid UTF-8 (the tool
\* then sends lines.bytes instead of lines.text).
Line(kind, defect) == [kind |-> kind, defect |-> defect]
Defects ==
  {"no_lines_text", "no_line_number", "bad_line_number", "null_data",
   "no_path_text", "not_json", "non_object"}
CleanLines == {Line(k, "none") : k \in {"m", "p"}}
CleanFiles(n) == SeqsUpTo(CleanLines, n)
\* a.md holds up to MaxLines lines, at most one of them defective (and
\* then it holds at most MaxDefectLines lines); b.md is empty or holds one
\* matching line
Corpora ==
  LET garbled == UNION { {[s EXCEPT ![i].defect = d] :
                             i \in 1..Len(s), d \in Defects} :
                         s \in CleanFiles(MaxDefectLines) }
  IN  { [f \in CorpusFiles |-> IF f = "a.md" THEN a ELSE b] :
          a \in CleanFiles(MaxLines) \cup garbled,
          b \in {<<>>, <<Line("m", "none")>>} }

\* the text of a line as the tool reports it, with its line terminator
LineText(f, i, kind) ==
  <<f, ToString(i)>> \o (IF kind = "m" THEN <<" ", "\n">> ELSE <<"\n">>)

\* one line of stdout: a JSON object that is an event, or something else
OutputLine(shape, type, defect, path, line_number, text) ==
  [shape |-> shape, type |-> type, defect |-> defect, path |-> path,
   line_number |-> line_number, text |-> text]

Event(type, defect, path, line_number, text) ==
  OutputLine(IF defect \in {"not_json", "non_object"} THEN defect ELSE "object",
             type, defect, path, line_number, text)

OtherEvent(type, path) == Event(type, "none", path, 0, <<>>)

Abs(n) == IF n < 0 THEN -n ELSE n

\* rg --json --max-count N --context C on one file: the first N matching
\* lines are match events, the lines within C lines of one of them are
\* context events, all in ascending line order between a begin and an end
\* event; a file without a match produces no event.
RgFile(root, f, lines, N, C) ==
  LET n == Len(lines)
      matching == {i \in 1..n : lines[i].kind = "m"}
      M == {i \in matching : Cardinality({j \in matching : j <= i}) <= N}
      shown == {i \in 1..n : \E m \in M : Abs(i - m) <= C}
      all == [i \in 1..n |->
                Event(IF i \in M THEN "match" ELSE "context", lines[i].defect,
                      root \o <<f>>, i, LineText(f, i, lines[i].kind))]
      IsShown(e) == e.line_number \in shown
  IN  IF M = {} THEN <<>>
      ELSE <<OtherEvent("begin", root \o <<f>>)>> \o SelectSeq(all, IsShown)
           \o <<OtherEvent("end", root \o <<f>>)>>

RECURSIVE RgFiles(_, _, _, _, _)
RgFiles(root, files, order, N, C) ==
  IF order = <<>> THEN <<>>
  ELSE RgFile(root, Head(order), files[Head(order)], N, C)
       \o RgFiles(root, files, Tail(order), N, C)

\* the command line of search_directory: --max-count max_results,
\* --context context_lines, over full_path; the files are visited in an
\* order the command line does not fix.
RgOutput(root, files, order, max_results, context_lines) ==
  RgFiles(root, files, order, max_results, context_lines)
  \o <<OtherEvent("summary", <<>>)>>

FileOrders == {<<"a.md", "b.md">>, <<"b.md", "a.md">>}

\* --------------------------------------------------- the match aggregator
RECURSIVE RStrip(_)
\* str.rstrip()
RStrip(text) ==
  IF text # <<>> /\ text[Len(text)] \in {" ", "\n", "\t", "\r"}
    THEN RStrip(SubSeq(text, 1, Len(text) - 1))
    ELSE text

IsUnder(p, root) == Len(p) >= Len(root) /\ SubSeq(p, 1, Len(root)) = root
\* Path.relative_to, where it does not raise
RelativeTo(p, root) == SubSeq(p, Len(root) + 1, Len(p))

\* results is a dict in insertion order: a list of (key, list of matches)
\* (PutFront is a dict that puts a new key before the others)
HasKey(res, k) == \E i \in 1..Len(res) : res[i].file = k
IndexOf(res, k) == CHOOSE i \in 1..Len(res) : res[i].file = k
Get(res, k) == res[IndexOf(res, k)].matches
PutFront(res, k, v) ==
  IF HasKey(res, k) THEN [res EXCEPT ![IndexOf(res, k)].matches = v]
  ELSE <<[file |-> k, matches |-> v]>> \o res
\* results[file_key] = ...: a new key goes behind the keys already there
Put(res, k, v) ==
  IF HasKey(res, k) THEN [res EXCEPT ![IndexOf(res, k)].matches = v]
  ELSE Append(res, [file |-> k, matches |-> v])

\* SearchMatch(line_number=, content=): both context lists start empty
SearchMatch(line_number, content) ==
  [line_number |-> line_number, content |-> content,
   context_before |-> <<>>, context_after |-> <<>>]

Parsed(res, total) == [results |-> res, total_matches |-> total, raised |-> FALSE]
Raised(res, total) == [results |-> res, total_matches |-> total, raised |-> TRUE]

\* a counter that is not advanced
CountMatchForgotten(total) == total
\* total_matches += 1
CountMatch(total) == total + 1

\* what the field accesses of an event raise
KeyErrorAtPath(ev) == ev.defect = "no_path_text"
FatalAtPath(ev) ==
  ev.defect = "null_data" \/ (~KeyErrorAtPath(ev) /\ ~IsUnder(ev.path, full_base_path))

\* the branch `data.get("type") == "match"`
ParseMatch(res, total, ev) ==
  IF KeyErrorAtPath(ev) THEN Parsed(res, total)
  ELSE IF FatalAtPath(ev) THEN Raised(res, total)
  ELSE LET file_key == RelativeTo(ev.path, full_base_path)
           res1 == IF HasKey(res, file_key) THEN res ELSE Put(res, file_key, <<>>)
       IN  IF ev.defect \in {"no_line_number", "no_lines_text"}
             THEN Parsed(res1, total)
           ELSE IF ev.defect = "bad_line_number" THEN Raised(res1, total)
           ELSE Parsed(Put(res1, file_key,
                           Append(Get(res1, file_key),
                                  SearchMatch(ev.line_number, RStrip(ev.text)))),
                       CountMatch(total))

\* the comparison turned round
IsBeforeFlipped(line_num, match_line) == line_num > match_line
\* before or after: `if line_num < last_match.line_number`
IsBefore(line_num, match_line) == line_num < match_line

\* match records that share their default lists: what is appended to the
\* list of one record shows in that list of every record
ShareLists(res, side, line) ==
  [i \in 1..Len(res) |->
     [res[i] EXCEPT !.matches =
        [j \in 1..Len(res[i].matches) |->
           [res[i].matches[j] EXCEPT ![side] = Append(@, line)]]]]

\* a context branch that opens a group for a file it has not seen
ParseContextCreating(res, total, ev) ==
  IF KeyErrorAtPath(ev) THEN Parsed(res, total)
  ELSE IF FatalAtPath(ev) THEN Raised(res, total)
  ELSE LET file_key == RelativeTo(ev.path, full_base_path)
       IN  IF ~HasKey(res, file_key) THEN Parsed(Put(res, file_key, <<>>), total)
           ELSE Parsed(res, total)

\* a context branch over records that share their default lists
ParseContextShared(res, total, ev) ==
  IF res = <<>> THEN Parsed(res, total)
  ELSE IF KeyErrorAtPath(ev) THEN Parsed(res, total)
  ELSE IF FatalAtPath(ev) THEN Raised(res, total)
  ELSE LET file_key == RelativeTo(ev.path, full_base_path)
       IN  IF ~HasKey(res, file_key) \/ Get(res, file_key) = <<>>
             THEN Parsed(res, total)
           ELSE IF ev.defect \in {"no_line_number", "no_lines_text"}
             THEN Parsed(res, total)
           ELSE IF ev.defect = "bad_line_number" THEN Raised(res, total)
           ELSE LET matches == Get(res, file_key)
                    last_match == matches[Len(matches)]
                    context_line == RStrip(ev.text)
                    side == IF IsBefore(ev.line_number, last_match.line_number)
                              THEN "context_before" ELSE "context_after"
                IN  Parsed(ShareLists(res, side, context_line), total)

\* the branch `data.get("type") == "context"`
ParseContext(res, total, ev) ==
  IF res = <<>> THEN Parsed(res, total)
  ELSE IF KeyErrorAtPath(ev) THEN Parsed(res, total)
  ELSE IF FatalAtPath(ev) THEN Raised(res, total)
  ELSE LET file_key == RelativeTo(ev.path, full_base_path)
       IN  IF ~HasKey(res, file_key) \/ Get(res, file_key) = <<>>
             THEN Parsed(res, total)
           ELSE IF ev.defect \in {"no_line_number", "no_lines_text"}
             THEN Parsed(res, total)
           ELSE IF ev.defect = "bad_line_number" THEN Raised(res, total)
           ELSE LET matches == Get(res, file_key)
                    last_match == matches[Len(matches)]
                    context_line == RStrip(ev.text)
                    updated ==
                      IF IsBefore(ev.line_number, last_match.line_number)
                        THEN [last_match EXCEPT !.context_before =
                                Append(@, context_line)]
                        ELSE [last_match EXCEPT !.context_after =
                                Append(@, context_line)]
                IN  Parsed(Put(res, file_key,
                               [matches EXCEPT ![Len(matches)] = updated]),
                           total)

\* the body of the loop over the lines of stdout
ParseEvent(res, total, ev) ==
  CASE ev.shape = "not_json" -> Parsed(res, total)
    [] ev.shape = "non_object" -> Raised(res, total)
    [] ev.shape = "object" /\ ev.type = "match" -> ParseMatch(res, total, ev)
    [] ev.shape = "object" /\ ev.type = "context" -> ParseContext(res, total, ev)
    [] OTHER -> Parsed(res, total)

\* a strict comparison
TruncatedStrict(total, max_results) == total > max_results
\* truncated = total_matches >= max_results
Truncated(total, max_results) == total >= max_results

\* ------------------------------------------------------ search_directory
\* a start that launches the subprocess before it looks for the directory
SearchStartLaunchFirst ==
  /\ pc = "call"
  /\ req.endpoint = "/search"
  /\ IF req.directory \notin AllowList
       THEN /\ outcome' = SearchError("Invalid directory")
            /\ pc' = "raised"
            /\ UNCHANGED <<fsOps, spawned, process>>
     ELSE IF ~Exists(fs, full_base_path)
       THEN /\ outcome' = SearchError("Directory not found")
            /\ pc' = "raised"
            /\ fsOps' = fsOps + 1
            /\ spawned' = spawned + 1
            /\ UNCHANGED process
     ELSE /\ pc' = "awaiting"
          /\ fsOps' = fsOps + 1
          /\ spawned' = spawned + 1
          /\ process' = Subprocess(full_base_path, req.max_results,
                                   req.context_lines)
          /\ UNCHANGED outcome
  /\ UNCHANGED <<outerVars, req, status, response, reads, filesVars, corpus,
                 stdout, li, results, total_matches, process_returncode>>

\* validation, existence check and launch of the subprocess
SearchStart ==
  /\ pc = "call"
  /\ req.endpoint = "/search"
  /\ IF req.directory \notin AllowList
       THEN /\ outcome' = SearchError("Invalid directory")
            /\ pc' = "raised"
            /\ UNCHANGED <<fsOps, spawned, process>>
     ELSE IF ~Exists(fs, full_base_path)
       THEN /\ outcome' = SearchError("Directory not found")
            /\ pc' = "raised"
            /\ fsOps' = fsOps + 1
            /\ UNCHANGED <<spawned, process>>
     ELSE /\ pc' = "awaiting"
          /\ fsOps' = fsOps + 1
          /\ spawned' = spawned + 1
          /\ process' = Subprocess(full_base_path, req.max_results,
                                   req.context_lines)
          /\ UNCHANGED outcome
  /\ UNCHANGED <<outerVars, req, status, response, reads, filesVars, corpus,
                 stdout, li, results, total_matches, process_returncode>>

StartParsing(lines) ==
  /\ stdout' = lines
  /\ li' = 1
  /\ results' = <<>>
  /\ total_matches' = 0
  /\ pc' = "parsing"

\* an exit test that lets every exit code through
ExitOkAlways(code) == TRUE
\* `process.returncode not in [0, 1]` is the failure of the tool
ExitOk(code) == code \in {0, 1}

\* the exit code of the tool: 0 when it printed a match, 1 when it found
\* none, 2 when it failed
ExitCode(lines) ==
  IF \E i \in 1..Len(lines) : lines[i].type = "match" THEN 0 ELSE 1
ExitFailure == 2

\* stdout, stderr = await process.communicate(), and the test of the exit
\* code: the SearchError raised with the text of stderr is caught by
\* `except Exception` and raised again
Communicate(code, lines) ==
  /\ process_returncode' = code
  /\ IF ExitOk(code)
       THEN /\ StartParsing(lines)
            /\ UNCHANGED outcome
       ELSE /\ outcome' =
                 SearchError("Search operation failed: Search failed: <stderr>")
            /\ pc' = "raised"
            /\ UNCHANGED <<stdout, li, results, total_matches>>

\* the tool searched the directory and exited with 0 or 1; a repeated
\* execution searches the files the previous one searched
RgRun ==
  /\ pc = "awaiting"
  /\ \E files \in Corpora, order \in FileOrders :
       /\ corpus.known => files = corpus.files
       /\ corpus' = [known |-> TRUE, files |-> files]
       /\ LET lines == RgOutput(process.path, files, order,
                                process.max_count, process.context)
          IN  Communicate(ExitCode(lines), lines)
  /\ UNCHANGED <<outerVars, req, status, response, spawned, fsOps, reads,
                 filesVars, process>>

\* the tool failed (a pattern it cannot parse, a file it cannot open) and
\* printed nothing on stdout
RgError ==
  /\ pc = "awaiting"
  /\ Communicate(ExitFailure, <<>>)
  /\ UNCHANGED <<outerVars, req, status, response, spawned, fsOps, reads,
                 filesVars, corpus, process>>

\* one iteration of `for line in stdout.decode().strip().split('\n')`
ParseLine ==
  /\ pc = "parsing"
  /\ li <= Len(stdout)
  /\ LET r == ParseEvent(results, total_matches, stdout[li])
     IN  /\ results' = r.results
         /\ total_matches' = r.total_matches
         /\ IF r.raised
              THEN /\ outcome' = SearchError("Search operation failed")
                   /\ pc' = "raised"
              ELSE UNCHANGED <<outcome, pc>>
  /\ li' = li + 1
  /\ UNCHANGED <<outerVars, req, status, response, spawned, fsOps, reads,
                 filesVars, corpus, stdout, process_returncode, process>>

\* return SearchResponse(results=, total_matches=, truncated=)
SearchReturn ==
  /\ pc = "parsing"
  /\ li > Len(stdout)
  /\ response' = [kind |-> "SearchResponse", results |-> results,
                  total_matches |-> total_matches,
                  truncated |-> Truncated(total_matches, req.max_results)]
  /\ outcome' = [kind |-> "response", msg |-> ""]
  /\ pc' = "returned"
  /\ UNCHANGED <<outerVars, req, status, spawned, fsOps, reads, filesVars, searchVars>>

\* ----------------------------------------------------------------- system
Next ==
  \/ Request
  \/ VerifyToken
  \/ ValidateBody
  \/ Reply
  \/ BackupRun
  \/ GetFilesStart
  \/ GetFilesIter
  \/ GetFilesReturn
  \/ SearchStart
  \/ RgRun
  \/ RgError
  \/ ParseLine
  \/ SearchReturn

Spec == Init /\ [][Next]_vars

\* ---------------------------------------------------------------- progress
\* The event loop runs every step of the host agent that is ready, and the
\* backup script is run with timeout=300. process.communicate() is awaited
\* without a timeout: the steps RgRun and RgError happen when the
\* subprocess exits, and nothing makes it exit.
\* a step of the host agent itself; at most one of them is ready at a time
AgentStep ==
  \/ VerifyToken
  \/ ValidateBody
  \/ Reply
  \/ BackupRun
  \/ GetFilesStart
  \/ GetFilesIter
  \/ GetFilesReturn
  \/ SearchStart
  \/ ParseLine
  \/ SearchReturn

Fairness == WF_vars(AgentStep)

\* the requests that are searches
SearchRequested == Request /\ req'.endpoint = "/search"

NextLive ==
  \/ SearchRequested
  \/ VerifyToken
  \/ ValidateBody
  \/ Reply
  \/ SearchStart
  \/ RgRun
  \/ RgError
  \/ ParseLine
  \/ SearchReturn

SpecLive == Init /\ [][NextLive]_vars /\ Fairness

\* ------------------------------------------------------ repeated searches
\* The caller of a search that returned a response sends the same request
\* again; nothing on the disk has changed in between.
Repeat ==
  /\ previous = NoResponse
  /\ req.endpoint = "/search"
  /\ response.kind = "SearchResponse"
  /\ \/ req.entry = "direct" /\ pc = "returned"
     \/ req.entry = "http" /\ pc = "done"
  /\ previous' = response
  /\ pc' = IF req.entry = "http" THEN "auth" ELSE "call"
  /\ status' = 0
  /\ outcome' = NoOutcome
  /\ response' = NoResponse
  /\ spawned' = 0
  /\ fsOps' = 0
  /\ stdout' = <<>>
  /\ li' = 0
  /\ results' = <<>>
  /\ total_matches' = 0
  /\ process_returncode' = NoExit
  /\ process' = NoProcess
  /\ UNCHANGED <<fs, other, chat, upd, wf, req, reads, filesVars, corpus>>

NextRepeat == Next \/ Repeat

SpecRepeat == Init /\ [][NextRepeat]_vars

\* ---------------------------------------------------- concurrent requests
\* The event loop serves two requests. The variables of a request are the
\* locals of its coroutine; the loop leaves a coroutine only at an await
\* (search_directory awaits its subprocess, get_files awaits nothing) or at
\* its end, and then runs the other one with the locals that one had.
MaxConcFiles == 1
MaxConcLines == 2

Frame ==
  [pc |-> pc, req |-> req, status |-> status, outcome |-> outcome,
   response |-> response, spawned |-> spawned, fsOps |-> fsOps,
   reads |-> reads, fi |-> fi, file_contents |-> file_contents,
   errors |-> errors, stdout |-> stdout, li |-> li, results |-> results,
   total_matches |-> total_matches,
   process_returncode |-> process_returncode, process |-> process]
FinishedFrame == [IdleFrame EXCEPT !.pc = "finished"]

\* a handle kept where every request sees the one launched last
ResumedProcessShared(saved, running) == running
\* process is a local of search_directory
ResumedProcess(saved, running) == saved

Ended ==
  \/ req.entry = "direct" /\ pc \in {"returned", "raised"}
  \/ pc = "done"

Switch ==
  /\ \/ /\ pc = "awaiting"
        /\ other.pc \in {"idle", "awaiting"}
        /\ other' = Frame
     \/ /\ Ended
        /\ other.pc = "awaiting"
        /\ other' = FinishedFrame
  /\ pc' = other.pc
  /\ req' = other.req
  /\ status' = other.status
  /\ outcome' = other.outcome
  /\ response' = other.response
  /\ spawned' = other.spawned
  /\ fsOps' = other.fsOps
  /\ reads' = other.reads
  /\ fi' = other.fi
  /\ file_contents' = other.file_contents
  /\ errors' = other.errors
  /\ stdout' = other.stdout
  /\ li' = other.li
  /\ results' = other.results
  /\ total_matches' = other.total_matches
  /\ process_returncode' = other.process_returncode
  /\ process' = ResumedProcess(other.process, process)
  /\ UNCHANGED <<fs, previous, chat, upd, wf, corpus>>

\* the requests and the files of the concurrent runs
RequestConc ==
  /\ Request
  /\ req'.endpoint \in {"/search", "/get_files"}
  /\ Len(req'.files) <= MaxConcFiles

RgRunConc ==
  /\ RgRun
  /\ \A f \in CorpusFiles :
       /\ Len(corpus'.files[f]) <= MaxConcLines
       /\ \A i \in 1..Len(corpus'.files[f]) : corpus'.files[f][i].defect = "none"

NextConc ==
  \/ RequestConc
  \/ VerifyToken
  \/ ValidateBody
  \/ Reply
  \/ GetFilesStart
  \/ GetFilesIter
  \/ GetFilesReturn
  \/ SearchStart
  \/ RgRunConc
  \/ RgError
  \/ ParseLine
  \/ SearchReturn
  \/ Switch

SpecConc == Init /\ [][NextConc]_vars

\* ------------------------------------------- ai-dev-server: chat endpoint
\* POST /v1/chat/completions of server.py. A token is the list of the
\* parts of its text, so that f"sk-{token}" is a concatenation.
MaxMessages == 2
MaxWords == 2

MULTI_AGENT_API_KEY == <<"sk-", "dev-test-key">>
ChatTokens == {MULTI_AGENT_API_KEY, <<"dev-test-key">>, <<"invalid-key">>}
Roles == {"system", "user", "assistant"}

hostVars ==
  <<fs, pc, req, status, outcome, response, spawned, fsOps, reads, filesVars,
    searchVars, previous, other>>

\* a client posts a body, with or without an Authorization header
ChatRequest ==
  /\ chat.pc = "idle"
  /\ \E auth \in {NoAuth} \cup {[present |-> TRUE, token |-> t] : t \in ChatTokens},
        body_ok \in BOOLEAN, stream \in BOOLEAN, buffered \in BOOLEAN,
        messages \in SeqsUpTo(Roles, MaxMessages) :
       /\ buffered => \E i \in 1..Len(messages) : messages[i] = "user"
       /\ chat' = [ChatIdle EXCEPT !.pc = "route", !.auth = auth,
                                  !.body_ok = body_ok, !.stream = stream,
                                  !.buffered = buffered, !.messages = messages]
  /\ UNCHANGED <<hostVars, upd, wf>>

\* verify_api_key: the key, or the key without its "sk-" prefix
VerifyApiKey(token) ==
  token = MULTI_AGENT_API_KEY \/ <<"sk-">> \o token = MULTI_AGENT_API_KEY

\* the dependencies the route of server.py declares: its only parameter is
\* the body, and it calls chat_completions_endpoint(request) as a plain
\* function, whose Depends(verify_api_key) default is then never resolved
RouteDependencies == {}

\* openai_chat_completions: validation of the body, the dependencies of
\* the route, then the call of chat_completions_endpoint
ChatRoute ==
  /\ chat.pc = "route"
  /\ IF ~chat.body_ok
       THEN chat' = [chat EXCEPT !.pc = "done", !.status = 422]
     ELSE IF "verify_api_key" \in RouteDependencies /\ ~chat.auth.present
       THEN chat' = [chat EXCEPT !.pc = "done", !.status = 403]
     ELSE IF "verify_api_key" \in RouteDependencies
             /\ ~VerifyApiKey(chat.auth.token)
       THEN chat' = [chat EXCEPT !.pc = "done", !.status = 401]
     ELSE chat' = [chat EXCEPT !.pc = "endpoint"]
  /\ UNCHANGED <<hostVars, upd, wf>>

\* chat_completions_endpoint: a StreamingResponse or the plain response
ChatEndpoint ==
  /\ chat.pc = "endpoint"
  /\ chat' = IF chat.stream
               THEN [chat EXCEPT !.pc = "stream_buffer", !.status = 200]
               ELSE [chat EXCEPT !.pc = "process"]
  /\ UNCHANGED <<hostVars, upd, wf>>

HasUserMessage(messages) == \E i \in 1..Len(messages) : messages[i] = "user"

\* process_chat_completion: 503 without a workflow, 500 when no user
\* message is found or workflow.run raises; "ran" counts workflow.run
ProcessChatCompletion(c, available, run_ok, words) ==
  IF ~available THEN [c EXCEPT !.status = 503]
  ELSE IF ~HasUserMessage(c.messages) THEN [c EXCEPT !.status = 500]
  ELSE IF ~run_ok THEN [c EXCEPT !.status = 500, !.ran = @ + 1]
  ELSE [c EXCEPT !.status = 200, !.ran = @ + 1, !.words = words]

ChatProcess ==
  /\ chat.pc = "process"
  /\ \E available \in BOOLEAN, run_ok \in BOOLEAN, words \in 0..MaxWords :
       chat' = [ProcessChatCompletion(chat, available, run_ok, words)
                  EXCEPT !.pc = "done"]
  /\ UNCHANGED <<hostVars, upd, wf>>

\* stream_chat_completion: the buffer words, when the last user message
\* calls for them
ChatStreamBuffer ==
  /\ chat.pc = "stream_buffer"
  /\ chat' = [chat EXCEPT !.pc = "stream_process",
                          !.sent = IF chat.buffered THEN Append(@, "buffer")
                                   ELSE @]
  /\ UNCHANGED <<hostVars, upd, wf>>

\* response = await adapter.process_chat_completion(request): an exception
\* ends the generator, and the headers with status 200 are already sent
ChatStreamProcess ==
  /\ chat.pc = "stream_process"
  /\ \E available \in BOOLEAN, run_ok \in BOOLEAN, words \in 0..MaxWords :
       LET c == ProcessChatCompletion(chat, available, run_ok, words)
       IN  chat' = [c EXCEPT !.pc = IF c.status = 200 THEN "stream_words"
                                   ELSE "done",
                            !.status = 200]
  /\ UNCHANGED <<hostVars, upd, wf>>

\* one chunk for each word of the content
ChatStreamWord ==
  /\ chat.pc = "stream_words"
  /\ chat.words > 0
  /\ chat' = [chat EXCEPT !.words = @ - 1, !.sent = Append(@, "word")]
  /\ UNCHANGED <<hostVars, upd, wf>>

\* the chunk with finish_reason "stop", then data: [DONE]
ChatStreamFinal ==
  /\ chat.pc = "stream_words"
  /\ chat.words = 0
  /\ chat' = [chat EXCEPT !.pc = "done", !.sent = @ \o <<"final", "[DONE]">>]
  /\ UNCHANGED <<hostVars, upd, wf>>

NextChat ==
  \/ ChatRequest
  \/ ChatRoute
  \/ ChatEndpoint
  \/ ChatProcess
  \/ ChatStreamBuffer
  \/ ChatStreamProcess
  \/ ChatStreamWord
  \/ ChatStreamFinal

SpecChat == Init /\ [][NextChat]_vars

\* ------------------------------- ai-dev-server: n8n_update_workflow_json
JsonArgs == {"none", "valid", "invalid"}
UpdateArgs ==
  [name : BOOLEAN, nodes_json : JsonArgs, connections_json : JsonArgs,
   settings_json : JsonArgs]

\* what the environment does to one backup call
BackupEnvs ==
  {"no_token", "200", "500", "timeout", "connect_error", "other_error"}

\* _run_n8n_backup: the dict it returns; it raises nothing
RunN8nBackup(env) ==
  CASE env = "no_token" ->
         [called |-> TRUE, success |-> FALSE, error |-> "token_required"]
    [] env = "200" ->
         [called |-> TRUE, success |-> TRUE, error |-> "none"]
    [] env = "500" ->
         [called |-> TRUE, success |-> FALSE, error |-> "api_error"]
    [] env = "timeout" ->
         [called |-> TRUE, success |-> FALSE, error |-> "timed_out"]
    [] env = "connect_error" ->
         [called |-> TRUE, success |-> FALSE, error |-> "could_not_connect"]
    [] OTHER ->
         [called |-> TRUE, success |-> FALSE, error |-> "unexpected"]

UpdateVars == <<hostVars, chat, wf>>

UpdateRaise(u, error) == [u EXCEPT !.pc = "done", !.outcome = error]

\* the tool is called
UpdateCall ==
  /\ upd.pc = "idle"
  /\ \E args \in UpdateArgs :
       upd' = [upd EXCEPT !.pc = "backup_before", !.args = args]
  /\ UNCHANGED UpdateVars

\* backup_before_result = await _run_n8n_backup()
UpdateBackupBefore ==
  /\ upd.pc = "backup_before"
  /\ \E env \in BackupEnvs :
       upd' = [upd EXCEPT !.pc = "get_workflow",
                          !.backup_before_result = RunN8nBackup(env),
                          !.trace = Append(@, "backup_before")]
  /\ UNCHANGED UpdateVars

\* client = _get_n8n_client(); current = await client.get_workflow(...)
UpdateGetWorkflow ==
  /\ upd.pc = "get_workflow"
  /\ \E N8N_API_KEY \in BOOLEAN, got \in {"named", "unnamed", "failed"} :
       upd' =
         IF ~N8N_API_KEY
         THEN UpdateRaise([upd EXCEPT !.current = "no_client"],
                          "raised_api_key_required")
         ELSE IF got = "failed"
         THEN UpdateRaise([upd EXCEPT !.current = "failed",
                                      !.trace = Append(@, "get_workflow")],
                          "raised_get_workflow")
         ELSE [upd EXCEPT !.pc = "workflow_data", !.current = got,
                          !.trace = Append(@, "get_workflow")]
  /\ UNCHANGED UpdateVars

\* workflow_data and the debug file
UpdateWorkflowData ==
  /\ upd.pc = "workflow_data"
  /\ \E disk_ok \in BOOLEAN :
       upd' =
         IF "invalid" \in {upd.args.nodes_json, upd.args.connections_json,
                           upd.args.settings_json}
         THEN UpdateRaise(upd, "raised_json_decode")
         ELSE IF ~disk_ok
         THEN UpdateRaise(upd, "raised_os_error")
         ELSE IF ~upd.args.name /\ upd.current = "unnamed"
         THEN UpdateRaise(upd, "raised_attribute_error")
         ELSE [upd EXCEPT !.pc = "update_workflow"]
  /\ UNCHANGED UpdateVars

\* the post-update backup is inside the try, after the update request
BackupAfterAlways(updated) == TRUE
BackupAfterDue(updated) == updated

\* update_result = await client.update_workflow(...), and the except clause
UpdateUpdateWorkflow ==
  /\ upd.pc = "update_workflow"
  /\ \E updated \in BOOLEAN :
       LET u == [upd EXCEPT !.trace = Append(@, "update_workflow"),
                            !.update_result =
                              IF updated THEN "ok" ELSE "failed"]
       IN upd' = IF BackupAfterDue(updated)
                 THEN [u EXCEPT !.pc = "backup_after"]
                 ELSE UpdateRaise(u, "raised_update_workflow")
  /\ UNCHANGED UpdateVars

\* backup_after_result = await _run_n8n_backup(), and the return
UpdateBackupAfter ==
  /\ upd.pc = "backup_after"
  /\ \E env \in BackupEnvs :
       upd' = [upd EXCEPT !.pc = "done",
                          !.backup_after_result = RunN8nBackup(env),
                          !.trace = Append(@, "backup_after"),
                          !.outcome = "returned"]
  /\ UNCHANGED UpdateVars

NextUpdate ==
  \/ UpdateCall
  \/ UpdateBackupBefore
  \/ UpdateGetWorkflow
  \/ UpdateWorkflowData
  \/ UpdateUpdateWorkflow
  \/ UpdateBackupAfter

SpecUpdate == Init /\ [][NextUpdate]_vars

\* ------------------------------ ai-dev-server: the multi-agent workflow
\* A text is the sequence of its words; `x in text` is a search for a word.
MaxContent == 2
Vocabulary == {"ROUTE_TO_MATH", "math_specialist", "hello"}
\* what the model of the orchestrator or of the specialist may answer
Contents == SeqsUpTo(Vocabulary, MaxContent)
UserInputs == SeqsUpTo(Vocabulary, 1)

In(word, text) == \E i \in DOMAIN text : text[i] = word

\* OrchestratorAgent.process: the decision for the answer of the model
Process(user_input, content) ==
  IF In("ROUTE_TO_MATH", content)
  THEN [action |-> "route", specialist |-> "math_specialist",
        original_query |-> user_input]
  ELSE [action |-> "respond", response |-> content]

\* str(result) inside the f-string: keys and values of the dict
DictStr(result) ==
  IF result.action = "route"
  THEN <<"action", "route", "specialist", result.specialist,
         "original_query">> \o result.original_query
  ELSE <<"action", "respond", "response">> \o result.response

WorkflowVars == <<hostVars, chat, upd>>

\* run: the initial state, the graph starts at its entry point
WorkflowRun ==
  /\ wf.pc = "idle"
  /\ \E user_input \in UserInputs :
       wf' = [wf EXCEPT !.pc = "orchestrator", !.user_input = user_input]
  /\ UNCHANGED WorkflowVars

\* _orchestrator_node
OrchestratorNode ==
  /\ wf.pc = "orchestrator"
  /\ \E content \in Contents :
       LET result == Process(wf.user_input, content)
       IN wf' = [wf EXCEPT
            !.pc = "route",
            !.result = result,
            !.messages =
              Append(@, <<"Orchestrator", "decision:">> \o DictStr(result)),
            !.current_agent = "orchestrator",
            !.final_response =
              IF result.action = "respond" THEN result.response ELSE @,
            !.visited = Append(@, "orchestrator")]
  /\ UNCHANGED WorkflowVars

\* _should_route_to_specialist
ShouldRouteToSpecialist(state) ==
  LET last_message ==
        IF state.messages # <<>> THEN state.messages[Len(state.messages)]
        ELSE <<>>
  IN IF In("math_specialist", last_message) THEN "math_specialist"
     ELSE "end"

\* the conditional edge after the orchestrator
ConditionalEdge ==
  /\ wf.pc = "route"
  /\ wf' = [wf EXCEPT !.pc =
              IF ShouldRouteToSpecialist(wf) = "math_specialist"
              THEN "math_specialist" ELSE "final_response"]
  /\ UNCHANGED WorkflowVars

\* _math_specialist_node, then the edge to final_response
MathSpecialistNode ==
  /\ wf.pc = "math_specialist"
  /\ \E response_ \in Contents :
       wf' = [wf EXCEPT
            !.pc = "final_response",
            !.messages =
              Append(@, <<"Math", "specialist", "response:">> \o response_),
            !.current_agent = "math_specialist",
            !.final_response = response_,
            !.visited = Append(@, "math_specialist")]
  /\ UNCHANGED WorkflowVars

\* _final_response_node, then the edge to END
FinalResponseNode ==
  /\ wf.pc = "final_response"
  /\ wf' = [wf EXCEPT !.pc = "end",
                      !.visited = Append(@, "final_response")]
  /\ UNCHANGED WorkflowVars

NextWorkflow ==
  \/ WorkflowRun
  \/ OrchestratorNode
  \/ ConditionalEdge
  \/ MathSpecialistNode
  \/ FinalResponseNode

SpecWorkflow == Init /\ [][NextWorkflow]_vars

\* ================================================================ claims
Returned(kind) == pc \in {"returned", "done"} /\ response.kind = kind

\* the canonical location of a requested path
Canonical(file_path) == Resolve(fs, Join(full_base_path, file_path))
\* the location is the base directory or a descendant of it
InsideBase(p) == IsUnder(p, Resolve(fs, full_base_path))
Escapes(file_path) ==
  Canonical(file_path) # ResolveError /\ ~InsideBase(Canonical(file_path))

HasError(errs, file_path, msg) ==
  \E i \in 1..Len(errs) : errs[i].file = file_path /\ errs[i].error = msg

\* C1: every requested path of get_files whose canonical location is neither
\* the base directory nor below it gets a 'path traversal' error in the
\* response, and the file at that location is never read.
C1_EscapingPathRejected ==
  Returned("GetFilesResponse") =>
    \A i \in 1..Len(req.files) :
      Escapes(req.files[i]) =>
        /\ HasError(response.errors, req.files[i],
                    "Path traversal attempt detected")
        /\ Canonical(req.files[i]) \notin reads

Count(seq, P(_)) == Cardinality({i \in 1..Len(seq) : P(seq[i])})

\* C2: in every response of get_files each requested entry is accounted for
\* exactly once: for every path, its entries in the request are as many as
\* its records in files and errors together, and the two lists together
\* are as long as the request.
C2_EveryPathAccountedOnce ==
  Returned("GetFilesResponse") =>
    /\ Len(response.files) + Len(response.errors) = Len(req.files)
    /\ \A p \in PathPool :
         LET requested(x) == x = p
             inFiles(r) == r.path = p
             inErrors(e) == e.file = p
         IN  Count(req.files, requested)
               = Count(response.files, inFiles) + Count(response.errors, inErrors)

\* a response that mixes contents with resolution, stat and read failures
C2_Witness ==
  /\ Returned("GetFilesResponse")
  /\ Len(req.files) = 3
  /\ Len(response.files) = 1
  /\ \E i, j \in 1..Len(response.errors) :
       /\ response.errors[i].error = "Failed to read file"
       /\ response.errors[j].error = "Unexpected error"

\* every output line of the searched corpus is a well-formed event
CleanCorpus ==
  /\ corpus.known
  /\ \A f \in CorpusFiles : \A i \in 1..Len(corpus.files[f]) :
       corpus.files[f][i].defect = "none"

\* the lines of the corpus that match the query
MatchingLines ==
  Cardinality({<<f, i>> \in CorpusFiles \X (1..MaxLines + 1) :
                 i <= Len(corpus.files[f]) /\ corpus.files[f][i].kind = "m"})

\* C3: a search over a corpus with more matching lines than max_results, in
\* one file or spread over several, returns truncated = true and
\* total_matches = max_results exactly.
C3_CapIsExact ==
  (Returned("SearchResponse") /\ CleanCorpus /\ MatchingLines > req.max_results)
    => response.truncated /\ response.total_matches = req.max_results

\* the line number a context line of the response was read from
LineNo(content) == CHOOSE i \in 1..(MaxLines + 1) : ToString(i) = content[2]

SeqToSet(seq) == {seq[i] : i \in 1..Len(seq)}

\* C4: every context line of a match comes from the file of the match and
\* lies within context_lines lines of it, and neither context list of a
\* match is longer than context_lines.
C4_ContextWithinWindow ==
  (Returned("SearchResponse") /\ CleanCorpus) =>
    \A g \in SeqToSet(response.results) : \A m \in SeqToSet(g.matches) :
      /\ Len(m.context_before) <= req.context_lines
      /\ Len(m.context_after) <= req.context_lines
      /\ \A c \in SeqToSet(m.context_before) \cup SeqToSet(m.context_after) :
           /\ <<c[1]>> = g.file
           /\ Abs(LineNo(c) - m.line_number) <= req.context_lines

\* C5: with context_lines >= 1, a match whose preceding line exists and is
\* not a match carries that line in context_before, and context_before is
\* in ascending line order.
C5_PrecedingLineIsContextBefore ==
  (Returned("SearchResponse") /\ CleanCorpus /\ req.context_lines >= 1) =>
    \A g \in SeqToSet(response.results) : \A m \in SeqToSet(g.matches) :
      LET f == g.file[1]
          n == m.line_number
      IN  /\ (n > 1 /\ corpus.files[f][n - 1].kind = "p") =>
               <<f, ToString(n - 1)>> \in SeqToSet(m.context_before)
          /\ \A i, j \in 1..Len(m.context_before) :
               i < j => LineNo(m.context_before[i]) < LineNo(m.context_before[j])

\* the function search_directory or get_files has been entered
Called ==
  /\ req.endpoint \in {"/search", "/get_files"}
  /\ \/ pc \in {"files_loop", "awaiting", "parsing", "returned", "raised"}
     \/ pc = "done" /\ status \notin {401, 422}

C7_BadTokenIs401 ==
  (req.entry = "http" /\ req.token # "test-token-123") =>
    /\ pc \in {"auth", "done"}
    /\ pc = "done" => status = 401
    /\ spawned = 0 /\ fsOps = 0 /\ reads = {}
    /\ response = NoResponse

\* a rejected request that would otherwise have read a file
C7_Witness ==
  /\ pc = "done" /\ status = 401
  /\ req.endpoint = "/get_files" /\ req.directory = "n8n-docs"
  /\ req.files = << <<"a.md">> >>

RECURSIVE AloneFiles(_)
\* the files lists of the responses each path gets when requested alone,
\* one after the other
AloneFiles(paths) ==
  IF paths = <<>> THEN <<>>
  ELSE LET o == FileOutcome(fs, full_base_path, Head(paths))
       IN  (IF o.tag = "file" THEN <<o.rec>> ELSE <<>>) \o AloneFiles(Tail(paths))

RECURSIVE AloneErrors(_)
AloneErrors(paths) ==
  IF paths = <<>> THEN <<>>
  ELSE LET o == FileOutcome(fs, full_base_path, Head(paths))
       IN  (IF o.tag = "error" THEN <<o.rec>> ELSE <<>>) \o AloneErrors(Tail(paths))

C9_TruncatedIffCapReached ==
  Returned("SearchResponse") =>
    /\ response.truncated <=> response.total_matches >= req.max_results
    /\ response.total_matches = 0 => ~response.truncated

\* the cap is reached exactly
C9_Witness ==
  /\ Returned("SearchResponse")
  /\ response.total_matches = req.max_results
  /\ response.truncated

RECURSIVE MatchRecords(_)
\* the match records of all file groups
MatchRecords(groups) ==
  IF groups = <<>> THEN 0
  ELSE Len(Head(groups).matches) + MatchRecords(Tail(groups))

\* C10: total_matches of a search response is the number of match records
\* of all its file groups, also when the stream holds context events and
\* skipped malformed lines.
C10_TotalCountsMatchRecords ==
  Returned("SearchResponse") => response.total_matches = MatchRecords(response.results)

\* a response with matches in two files, a context line and a skipped line
C10_Witness ==
  /\ Returned("SearchResponse")
  /\ ~CleanCorpus
  /\ Len(response.results) = 2
  /\ response.total_matches >= 2
  /\ \E g \in SeqToSet(response.results) : \E m \in SeqToSet(g.matches) :
       m.context_after # <<>>

\* every line of stdout is a JSON object with its data and an integer line
\* number, or a line the loop skips: what the tool can print
OutputOfTool ==
  \A i \in 1..Len(stdout) :
    stdout[i].defect \notin {"non_object", "null_data", "bad_line_number"}

SearchEnded ==
  /\ req.endpoint = "/search"
  /\ process_returncode # NoExit
  /\ pc \in {"returned", "raised", "done"}

HasContent(files, file_path) ==
  \E i \in 1..Len(files) : files[i].path = file_path

\* C12: a requested path whose canonical location is the base directory or
\* below it gets the error 'File not found' when nothing lies there and
\* the error 'Path is not a file' when a directory lies there (the base
\* directory itself, requested as '' or '.', included); in both cases no
\* content record is returned for it.
C12_MissingAndNonFileReported ==
  Returned("GetFilesResponse") =>
    \A i \in 1..Len(req.files) :
      LET p == req.files[i]
          c == Canonical(p)
      IN  (c # ResolveError /\ InsideBase(c)) =>
            /\ Kind(fs, c) = "none" =>
                 /\ HasError(response.errors, p, "File not found")
                 /\ ~HasContent(response.files, p)
            /\ Kind(fs, c) = "dir" =>
                 /\ HasError(response.errors, p, "Path is not a file")
                 /\ ~HasContent(response.files, p)

\* a missing file, a subdirectory and the base directory under both of its
\* spellings, all in one request
C12_Witness ==
  /\ Returned("GetFilesResponse")
  /\ req.directory = "n8n-docs"
  /\ \E i, j \in 1..Len(req.files) :
       /\ req.files[i] = <<"missing.md">>
       /\ req.files[j] \in {<<"">>, <<".">>}
       /\ Canonical(req.files[j]) = full_base_path
  /\ HasError(response.errors, <<"missing.md">>, "File not found")
  /\ \E p \in {<<"">>, <<".">>} : HasError(response.errors, p, "Path is not a file")

\* C13: a regular file below the base directory whose bytes are not valid
\* UTF-8 is returned as a content record, decoded with a replacement
\* character in place of each invalid byte and with its size in bytes, and
\* gets no error; an error is recorded for it only when the fallback read
\* itself fails.
C13_NonUtf8FileIsReturned ==
  Returned("GetFilesResponse") =>
    \A i \in 1..Len(req.files) :
      LET p == req.files[i]
          c == Canonical(p)
          bytes == Bytes(c)
          hasError == \E k \in 1..Len(response.errors) : response.errors[k].file = p
      IN  (/\ c # ResolveError
           /\ InsideBase(c)
           /\ Kind(fs, c) \in {"binfile", "gonefile"}
           /\ \E b \in 1..Len(bytes) : bytes[b] = "xFF") =>
            IF Kind(fs, c) = "gonefile"
              THEN /\ HasError(response.errors, p, "Failed to read file")
                   /\ ~HasContent(response.files, p)
              ELSE /\ ~hasError
                   /\ \E k \in 1..Len(response.files) :
                        LET r == response.files[k]
                        IN  /\ r.path = p
                            /\ r.size = Len(bytes)
                            /\ Len(r.content) = Len(bytes)
                            /\ \A b \in 1..Len(bytes) :
                                 r.content[b] = IF bytes[b] = "xFF" THEN "uFFFD"
                                                ELSE bytes[b]

\* bin.dat is returned with its replacement character while gone.dat, whose
\* fallback read fails, is reported
C13_Witness ==
  /\ Returned("GetFilesResponse")
  /\ req.directory = "n8n-docs"
  /\ req.files = <<<<"bin.dat">>, <<"gone.dat">>>>
  /\ response.files = <<FileContent(<<"bin.dat">>, <<"h", "uFFFD", "i">>, 3)>>
  /\ response.errors = <<ErrorRecord(<<"gone.dat">>, "Failed to read file")>>

\* a match event of file f that reaches `if file_key not in results`
IsMatchOf(ev, f) ==
  /\ ev.shape = "object"
  /\ ev.type = "match"
  /\ ev.defect \notin {"no_path_text", "null_data"}
  /\ ev.path = full_base_path \o f
\* the position in stdout of the first match event of file f
FirstArrival(f) ==
  CHOOSE i \in 1..Len(stdout) :
    /\ IsMatchOf(stdout[i], f)
    /\ \A j \in 1..(i - 1) : ~IsMatchOf(stdout[j], f)
\* the match events of file f that are recorded, in the order of stdout
ArrivedMatches(f) ==
  LET recorded(ev) == IsMatchOf(ev, f) /\ ev.defect = "none"
  IN  SelectSeq(stdout, recorded)

\* C14: the file groups of a search response stand in the order in which
\* the first match event of each file arrived, no file has two groups, and
\* the match records of a group stand in the order in which their match
\* events arrived.
C14_GroupsInArrivalOrder ==
  Returned("SearchResponse") =>
    LET g == response.results
    IN  /\ \A i, j \in 1..Len(g) : i # j => g[i].file # g[j].file
        /\ \A i \in 1..Len(g) :
             \E k \in 1..Len(stdout) : IsMatchOf(stdout[k], g[i].file)
        /\ \A f \in CorpusFiles :
             (\E k \in 1..Len(stdout) : IsMatchOf(stdout[k], <<f>>)) =>
               \E i \in 1..Len(g) : g[i].file = <<f>>
        /\ \A i, j \in 1..Len(g) :
             i < j => FirstArrival(g[i].file) < FirstArrival(g[j].file)
        /\ \A i \in 1..Len(g) :
             LET arrived == ArrivedMatches(g[i].file)
             IN  /\ Len(g[i].matches) = Len(arrived)
                 /\ \A k \in 1..Len(arrived) :
                      /\ g[i].matches[k].line_number = arrived[k].line_number
                      /\ g[i].matches[k].content = RStrip(arrived[k].text)

\* the tool reported b.md before a.md, and a.md with two matches
C14_Witness ==
  /\ Returned("SearchResponse")
  /\ Len(response.results) = 2
  /\ response.results[1].file = <<"b.md">>
  /\ response.results[2].file = <<"a.md">>
  /\ Len(response.results[2].matches) = 2
  /\ response.results[2].matches[1].line_number
       < response.results[2].matches[2].line_number

\* C15: a search request executed a second time over the same files
\* returns the response of its first execution: the same groups in the
\* same order, with the same matches, total_matches and truncated.
C15_RepeatedSearchIdentical ==
  (previous # NoResponse /\ Returned("SearchResponse")) => response = previous

\* C16: a search whose subprocess was launched ends: it returns its
\* response or raises its error, whether or not the subprocess exits.
C16_SearchAlwaysEnds ==
  (pc = "awaiting") ~> (pc \in {"returned", "raised", "done"})

RECURSIVE ParseAll(_, _, _)
\* the whole loop over the lines of stdout, run without interruption
ParseAll(res, total, lines) ==
  IF lines = <<>> THEN Parsed(res, total)
  ELSE LET r == ParseEvent(res, total, Head(lines))
       IN  IF r.raised THEN r ELSE ParseAll(r.results, r.total_matches, Tail(lines))

\* the response of the search request req served alone, when the tool
\* visits the files in the given order
AloneSearch(order) ==
  LET lines == RgOutput(full_base_path, corpus.files, order, req.max_results,
                        req.context_lines)
      r == ParseAll(<<>>, 0, lines)
  IN  [kind |-> "SearchResponse", results |-> r.results,
       total_matches |-> r.total_matches,
       truncated |-> Truncated(r.total_matches, req.max_results)]

\* C17: however the event loop interleaves two requests at their awaits,
\* the response of each is one it produces when served alone: a search
\* response is the aggregation of the output of its own subprocess, a
\* get_files response holds the records of its own paths, and nothing of
\* the other request shows in it.
C17_ConcurrentAsAlone ==
  /\ Returned("SearchResponse") =>
       /\ \E order \in FileOrders : response = AloneSearch(order)
       /\ spawned = 1
  /\ Returned("GetFilesResponse") =>
       /\ response.files = AloneFiles(req.files)
       /\ response.errors = AloneErrors(req.files)
       /\ spawned = 0

\* a search returns two matches while a search with another cap and
\* another context, launched after it, still awaits its subprocess
C17_Witness ==
  /\ Returned("SearchResponse")
  /\ other.pc = "awaiting"
  /\ other.req.endpoint = "/search"
  /\ other.req.max_results # req.max_results
  /\ other.req.context_lines # req.context_lines
  /\ response.total_matches = 2
  /\ \E order \in FileOrders : response = AloneSearch(order)

\* an HTTP request with the right token that was answered
Answered(endpoint) ==
  /\ pc = "done"
  /\ req.entry = "http"
  /\ req.token = bearer_token
  /\ req.endpoint = endpoint

\* C18: every directory name the MCP tools forward is accepted by the
\* validation of /search and /get_files: an authenticated request that
\* names it is not answered 422 nor 'Invalid directory', and an
\* authenticated search of n8nio is answered 200 with a SearchResponse.
C18_ForwardedDirectoriesAccepted ==
  /\ \A endpoint \in {"/search", "/get_files"} :
       (/\ Answered(endpoint)
        /\ req.directory \in ForwardedDirectories
        /\ endpoint = "/get_files" => Len(req.files) >= 1) =>
         /\ status # 422
         /\ outcome.msg # "Invalid directory"
  /\ (Answered("/search") /\ req.directory = "n8nio") =>
       (status = 200 /\ response.kind = "SearchResponse")

\* C19: an authenticated /search request that names a directory outside
\* the allow-list is answered with HTTP 400.
C19_InvalidDirectoryIs400 ==
  (Answered("/search") /\ req.directory \notin AllowList) => status = 400

\* C20: a chat completion request with a well-formed body and an invalid
\* API key is answered 401, one without an Authorization header is
\* answered 401 or 422, and neither is passed to the multi-agent workflow.
C20_UnauthenticatedChatRejected ==
  (/\ chat.pc # "idle"
   /\ chat.body_ok
   /\ ~(chat.auth.present /\ VerifyApiKey(chat.auth.token))) =>
    /\ chat.ran = 0
    /\ chat.pc \notin {"endpoint", "process", "stream_buffer", "stream_process",
                       "stream_words"}
    /\ chat.pc = "done" =>
         IF chat.auth.present THEN chat.status = 401
         ELSE chat.status \in {401, 422}

\* the lines of stdout that are events with every field in place
Remaining ==
  LET usable(ev) == ev.defect = "none"
  IN  SelectSeq(stdout, usable)

\* C21: an output line that cannot be used as an event (not JSON, not a
\* JSON object, or an event with a missing, null or ill-typed data, path,
\* lines or line_number) is skipped: a search whose subprocess exited with
\* 0 or 1 does not fail, and its response is the one built from the
\* remaining events.
C21_MalformedLineSkipped ==
  (SearchEnded /\ process_returncode \in {0, 1}) =>
    /\ outcome.kind = "response"
    /\ response.kind = "SearchResponse"
    /\ LET r == ParseAll(<<>>, 0, Remaining)
       IN  /\ response.results = r.results
           /\ response.total_matches = r.total_matches

\* the line numbers of a context list ascend: the order of arrival
Ascending(list) ==
  \A k \in 2..Len(list) : LineNo(list[k - 1]) < LineNo(list[k])

\* C22: in every search response the lines of context_before of a match
\* come from the file of the match and have smaller line numbers than it,
\* the lines of context_after come from that file and have larger line
\* numbers, each list is in arrival order, and a context line is attached
\* to the match of its file that was recorded last before it arrived.
C22_ContextOnTheRightSide ==
  Returned("SearchResponse") =>
    \A g \in SeqToSet(response.results) : \A m \in SeqToSet(g.matches) :
      /\ Ascending(m.context_before)
      /\ Ascending(m.context_after)
      /\ \A c \in SeqToSet(m.context_before) :
           /\ <<c[1]>> = g.file
           /\ LineNo(c) < m.line_number
      /\ \A c \in SeqToSet(m.context_after) :
           /\ <<c[1]>> = g.file
           /\ LineNo(c) > m.line_number
           /\ \A m2 \in SeqToSet(g.matches) :
                ~(m.line_number < m2.line_number /\ m2.line_number < LineNo(c))

\* line 2 of a.md, between the matches at lines 1 and 3, is attached to
\* the match at line 1
C22_Witness ==
  /\ Returned("SearchResponse")
  /\ \E g \in SeqToSet(response.results) :
       /\ g.file = <<"a.md">>
       /\ Len(g.matches) = 2
       /\ g.matches[1].line_number = 1
       /\ g.matches[1].context_after = << <<"a.md", "2">> >>
       /\ g.matches[2].line_number = 3

\* the event the loop is about to process is a context event of a file for
\* which no match has been recorded
ContextBeforeMatch(i) ==
  /\ i >= 1 /\ i <= Len(stdout)
  /\ stdout[i].shape = "object"
  /\ stdout[i].type = "context"
  /\ stdout[i].defect = "none"
  /\ LET file_key == RelativeTo(stdout[i].path, full_base_path)
     IN  \A j \in 1..(i - 1) :
           ~(IsMatchOf(stdout[j], file_key) /\ stdout[j].defect = "none")

\* C23: a context event that arrives before any match was recorded for its
\* file is dropped: the step that processes it leaves the groups, their
\* matches and total_matches as they were and goes on to the next line.
C23_EarlyContextDropped ==
  [][(pc = "parsing" /\ ContextBeforeMatch(li)) =>
       /\ results' = results
       /\ total_matches' = total_matches
       /\ outcome' = outcome
       /\ pc' = "parsing"
       /\ li' = li + 1]_vars

\* b.md was reported first and has its group; line 1 of a.md, the context
\* of the match at line 2, has just been dropped
C23_Witness ==
  /\ pc = "parsing"
  /\ li > 1
  /\ ContextBeforeMatch(li - 1)
  /\ stdout[li - 1].path = full_base_path \o <<"a.md">>
  /\ Len(results) = 1
  /\ results[1].file = <<"b.md">>
  /\ total_matches = 1

C25_NoEmptyGroup ==
  Returned("SearchResponse") =>
    \A i \in 1..Len(response.results) : response.results[i].matches # <<>>

RECURSIVE FilesOn(_, _)
\* the files list of get_files for the given paths on the disk w
FilesOn(w, paths) ==
  IF paths = <<>> THEN <<>>
  ELSE LET o == FileOutcome(w, full_base_path, Head(paths))
       IN  (IF o.tag = "file" THEN <<o.rec>> ELSE <<>>) \o FilesOn(w, Tail(paths))

RECURSIVE ErrorsOn(_, _)
\* the errors list of get_files for the given paths on the disk w
ErrorsOn(w, paths) ==
  IF paths = <<>> THEN <<>>
  ELSE LET o == FileOutcome(w, full_base_path, Head(paths))
       IN  (IF o.tag = "error" THEN <<o.rec>> ELSE <<>>) \o ErrorsOn(w, Tail(paths))

\* C26: the response of get_files does not depend on the disk outside the
\* base directory: over n8n-docs, on which all the disks of Worlds agree,
\* the response is the one the same request gets on any of them.
C26_OutsideDoesNotShow ==
  (Returned("GetFilesResponse") /\ req.directory = "n8n-docs") =>
    \A w \in Worlds :
      /\ response.files = FilesOn(w, req.files)
      /\ response.errors = ErrorsOn(w, req.files)

Sides == {"context_before", "context_after"}

\* the lists that differ between the groups res and the groups res2
ChangedLists(res, res2) ==
  {<<i, j, side>> \in (1..Len(res)) \X (1..(MaxLines + 1)) \X Sides :
     /\ j <= Len(res[i].matches)
     /\ res2[i].matches[j][side] # res[i].matches[j][side]}

\* the groups res2 hold the files and the matches of the groups res
SameMatches(res, res2) ==
  /\ Len(res2) = Len(res)
  /\ \A i \in 1..Len(res) :
       /\ res2[i].file = res[i].file
       /\ Len(res2[i].matches) = Len(res[i].matches)
       /\ \A j \in 1..Len(res[i].matches) :
            /\ res2[i].matches[j].line_number = res[i].matches[j].line_number
            /\ res2[i].matches[j].content = res[i].matches[j].content

\* C27: the step that processes a context event changes at most one list
\* of one match, and when the event is attached exactly one: a line is
\* appended to context_before or context_after of the last match of the
\* file of the event, and the lists of every other match, of that file or
\* of another, stay as they were.
C27_AttachChangesOneList ==
  [][(/\ pc = "parsing"
      /\ li <= Len(stdout)
      /\ stdout[li].shape = "object"
      /\ stdout[li].type = "context") =>
       LET ev == stdout[li]
           file_key == RelativeTo(ev.path, full_base_path)
           changed == ChangedLists(results, results')
       IN  /\ SameMatches(results, results')
           /\ Cardinality(changed) <= 1
           /\ (/\ ev.defect = "none"
               /\ HasKey(results, file_key)
               /\ Get(results, file_key) # <<>>) =>
                \E side \in Sides :
                  LET i == IndexOf(results, file_key)
                      j == Len(results[i].matches)
                  IN  /\ changed = {<<i, j, side>>}
                      /\ results'[i].matches[j][side]
                           = Append(results[i].matches[j][side], RStrip(ev.text))]_vars

\* line 2 of a.md has just been attached to the match of a.md while the
\* match of b.md, recorded before, keeps its empty lists
C27_Witness ==
  /\ pc = "parsing"
  /\ li > 1
  /\ stdout[li - 1].type = "context"
  /\ stdout[li - 1].defect = "none"
  /\ Len(results) = 2
  /\ results[1].file = <<"b.md">>
  /\ results[1].matches[1].context_before = <<>>
  /\ results[1].matches[1].context_after = <<>>
  /\ results[2].file = <<"a.md">>
  /\ results[2].matches[1].context_after = << <<"a.md", "2">> >>

\* ---- n8n_update_workflow_json
Sent(event) == \E i \in DOMAIN upd.trace : upd.trace[i] = event
BeforeInTrace(a, b) ==
  \A i \in DOMAIN upd.trace :
    upd.trace[i] = b => \E j \in 1..(i - 1) : upd.trace[j] = a

\* C28: every update request sent to n8n comes after a completed pre-update
\* backup attempt, whether that attempt succeeded or failed; a post-update
\* backup is attempted exactly when the update request succeeded; when
\* fetching the current workflow or the update request fails, no post-update
\* backup is attempted and the error is raised.
C28_BackupAroundUpdate ==
  /\ BeforeInTrace("backup_before", "update_workflow")
  /\ Sent("update_workflow") => upd.backup_before_result.called
  /\ Sent("backup_after") => upd.update_result = "ok"
  /\ BeforeInTrace("update_workflow", "backup_after")
  /\ upd.pc = "done" =>
       /\ Sent("backup_after") <=> upd.update_result = "ok"
       /\ upd.backup_after_result.called <=> upd.update_result = "ok"
       /\ upd.current = "failed" \/ upd.update_result = "failed" =>
            /\ ~Sent("backup_after")
            /\ upd.outcome \in {"raised_get_workflow",
                                "raised_update_workflow"}

\* an update request failed after a failed pre-update backup, and the call
\* has ended
C28_Witness ==
  /\ upd.pc = "done"
  /\ upd.update_result = "failed"
  /\ ~upd.backup_before_result.success
  /\ upd.trace = <<"backup_before", "get_workflow", "update_workflow">>

\* an update succeeded and the post-update backup was attempted and failed
C28_WitnessAfter ==
  /\ upd.pc = "done"
  /\ upd.outcome = "returned"
  /\ upd.update_result = "ok"
  /\ ~upd.backup_after_result.success
  /\ upd.trace =
       <<"backup_before", "get_workflow", "update_workflow", "backup_after">>

\* ---- the multi-agent workflow
Visits(node) ==
  Cardinality({i \in DOMAIN wf.visited : wf.visited[i] = node})

\* C29: a run visits the orchestrator once, then the math specialist at most
\* once, then final_response, and ends; the math specialist is visited
\* exactly when the decision of the orchestrator has action 'route', so an
\* answer with action 'respond' is the final response whatever its text.
C29_RouteByAction ==
  wf.pc = "end" =>
    /\ wf.visited \in {<<"orchestrator", "final_response">>,
                       <<"orchestrator", "math_specialist",
                         "final_response">>}
    /\ In("math_specialist", wf.visited) <=> wf.result.action = "route"
    /\ wf.result.action = "respond" =>
         wf.final_response = wf.result.response

\* the shape of the graph alone: no node twice, orchestrator first,
\* final_response last
C29_NoCycle ==
  /\ \A n \in {"orchestrator", "math_specialist", "final_response"} :
       Visits(n) <= 1
  /\ wf.pc = "end" =>
       /\ wf.visited[1] = "orchestrator"
       /\ wf.visited[Len(wf.visited)] = "final_response"
  /\ wf.result.action = "route" /\ wf.pc = "end" =>
       In("math_specialist", wf.visited)

\* ---- stream_chat_completion
Times(event, n) == [i \in 1..n |-> event]
StreamStarted == chat.stream /\ chat.status = 200
\* the events of a whole stream: the buffer chunk at most once, the word
\* chunks, the chunk with finish_reason "stop", data: [DONE]
WholeStream(sent) ==
  \E b \in 0..1, n \in 0..MaxWords :
    sent = Times("buffer", b) \o Times("word", n) \o <<"final", "[DONE]">>

\* C30: a started stream emits at most one buffer chunk, then one chunk for
\* each word, then one chunk with finish_reason 'stop', then data: [DONE] as
\* its last event, and every started stream reaches [DONE], also when the
\* workflow fails after the buffer chunk was sent.
C30_StreamEndsWithDone ==
  StreamStarted /\ chat.pc = "done" => WholeStream(chat.sent)

\* what is sent is at every moment the beginning of a whole stream
C30_OrderOfEvents ==
  StreamStarted =>
    \E rest \in SeqsUpTo({"word", "final", "[DONE]"}, MaxWords + 2) :
      WholeStream(chat.sent \o rest)

====
